---- MODULE Spec2Model ----
(***************************************************************************)
(* Model of guardowl/protocols.py: the stability-test protocol classes     *)
(* (PropagationProtocol, MultiTemperatureProtocol), the scenario runners   *)
(* that build their parameters, the bond-length scan of                    *)
(* BondProfileProtocol and the minimization benchmark run_detect_minimum.  *)
(*                                                                         *)
(* The simulation engine (openmm) is an external collaborator: every call  *)
(* the code makes on it is appended to the trace `calls`, and the handle   *)
(* state the calls change is kept in `sims`.  Engine calls are assumed to  *)
(* return normally; the exceptions in the model are the ones the Python    *)
(* code of this module raises itself.                                      *)
(***************************************************************************)
EXTENDS Integers, Sequences, FiniteSets, TLC

VARIABLES
    pc,         \* position of the single (synchronous) thread of control
    err,        \* "none", or the name of the exception that ended the call
    inp,        \* the arguments of the call in progress
    params,     \* heap of parameter objects (index = object identity)
    reporters,  \* heap of StateDataReporter objects
    sims,       \* heap of simulation handles
    calls,      \* trace of engine calls and file opens, in program order
    files,      \* every file opened for writing: name and the run that opened it
    proto,      \* protocol class selected: "Propagation" | "Multi" | "none"
    cur,        \* identity of the parameters object perform_stability_test got
    i,          \* MultiTemperatureProtocol: number of temperatures completed
    mol,        \* scenario runners: index of the molecule being processed
    run,        \* number of setup+run pairs completed
    job,        \* the parameters object, minimize flag and handle of the pair in progress
    scan,       \* state of the bond scan (perform_scan / perform_DOF_scan)
    det         \* state of run_detect_minimum

vars == <<pc, err, inp, params, reporters, sims, calls, files, proto, cur, i,
          mol, run, job, scan, det>>

protoVars == <<inp, params, reporters, sims, proto, cur, i, mol, run, job>>

-----------------------------------------------------------------------------
(* Bounds of the model *)

MaxTemps == 2          \* longest temperature list
MaxMols == 2           \* most molecules handed to one scenario runner
MaxSteps == 2          \* largest protocol_length
MaxStretch == 2        \* largest bond_length_max (Angstrom)
MaxCandidates == 4     \* most candidates in the benchmark listing

-----------------------------------------------------------------------------
(* Strings: Python's str() of the values that are formatted into names *)

Digit(d) == SubSeq("0123456789", d + 1, d + 1)

RECURSIVE IntStr(_)
IntStr(n) == IF n < 10 THEN Digit(n) ELSE IntStr(n \div 10) \o Digit(n % 10)

RECURSIVE JoinInts(_)
JoinInts(s) ==
    IF Len(s) = 0 THEN ""
    ELSE IF Len(s) = 1 THEN IntStr(s[1])
    ELSE IntStr(s[1]) \o ", " \o JoinInts(Tail(s))

(* A temperature is an int or a list of ints.  items holds the list, or    *)
(* the one value of a scalar.                                              *)
IntTemp(t) == [isList |-> FALSE, items |-> <<t>>]
ListTemp(s) == [isList |-> TRUE, items |-> s]

\* f"{temperature}"
PyStr(t) == IF t.isList THEN "[" \o JoinInts(t.items) \o "]" ELSE IntStr(t.items[1])

\* a type check that lets every temperature through
AnyTemperature(t) == TRUE

\* isinstance(temperature, list)
IsList(t) == t.isList

Min(a, b) == IF a < b THEN a ELSE b

\* isinstance(temperature, int)
IsInt(t) == ~t.isList

-----------------------------------------------------------------------------
(* Rational numbers <<numerator, denominator>>, denominator > 0, reduced *)

RECURSIVE Gcd(_, _)
Gcd(a, b) == IF b = 0 THEN a ELSE Gcd(b, a % b)

Abs(a) == IF a < 0 THEN -a ELSE a

Rat(n, d) ==
    LET g == Gcd(Abs(n), d) IN IF g = 0 THEN <<0, 1>> ELSE <<n \div g, d \div g>>

RatAdd(a, b) == Rat(a[1] * b[2] + b[1] * a[2], a[2] * b[2])
RatSub(a, b) == Rat(a[1] * b[2] - b[1] * a[2], a[2] * b[2])
RatMul(a, b) == Rat(a[1] * b[1], a[2] * b[2])
RatDivInt(a, k) == Rat(a[1], a[2] * k)
RatLeq(a, b) == a[1] * b[2] <= b[1] * a[2]
Zero == <<0, 1>>

\* numpy.linspace(start, stop, num)[k-1] for k in 1..num (num >= 2):
\* start + (k-1) * (stop-start)/(num-1), the last sample being stop itself
linspace(start, stop, num, k) ==
    IF k = num THEN stop
    ELSE RatAdd(start, RatMul(Rat(k - 1, 1), RatDivInt(RatSub(stop, start), num - 1)))

-----------------------------------------------------------------------------
(* Trace events *)

Event(op, sim, what, val) == [op |-> op, sim |-> sim, what |-> what, val |-> val]

\* f"{parameters.output_folder}/{parameters.log_file_name}"
output_file_name(p) == p.output_folder \o "/" \o p.log_file_name

\* A file the program opened for writing: its name, the setup+run pair that
\* opened it, what is written into it, and what the code does to release it:
\*   "with"      opened by a with statement, closed when the block is left
\*   "callee"    opened and closed inside the library call that writes it
\*   "dropped"   open(...) with no close call; the last reference is dropped
\*               when the call or the handle goes away, so the file is closed
\*               only when the interpreter reclaims the object
\*   "reference" open(...) with no close call; the file object is stored in an
\*               object of the caller and is still open after the return
OutputFile(name, r, content, release) ==
    [name |-> name, run |-> r, content |-> content, release |-> release]

-----------------------------------------------------------------------------
(* StabilityTest._setup_simulation *)

\* the scalar a parameters object carries as temperature
ScalarOf(t) == IF Len(t.items) > 0 THEN t.items[1] ELSE 0

AnnealingStages == 10
AnnealingStepsPerStage == 100
MaxIterations == 1000

\* one pass of the annealing loop body, up to the barostat lookup
AnnealStage(p, id, k) ==
    << Event("step", id, "", Rat(AnnealingStepsPerStage, 1)),
       Event("setTemperature", id, "",
             linspace(Zero, Rat(ScalarOf(p.temperature), 1), AnnealingStages, k)) >>

\* the barostat branch reads the undefined name barostate_force_id
BarostatRaises(p) == p.ensemble = "npt"

RECURSIVE AnnealEvents(_, _, _)
AnnealEvents(p, id, k) ==
    IF k > AnnealingStages THEN <<>>
    ELSE IF BarostatRaises(p) THEN AnnealStage(p, id, k)
    ELSE AnnealStage(p, id, k) \o AnnealEvents(p, id, k + 1)

RECURSIVE SumSteps(_)
SumSteps(ev) ==
    IF Len(ev) = 0 THEN 0
    ELSE (IF ev[1].op = "step" THEN ev[1].val[1] ELSE 0) + SumSteps(Tail(ev))

\* the default of the minimization_tolerance argument: 1 kJ/mol/A
DefaultTolerance == "1 kJ/mol/A"

\* the minimization placed after the annealing
SetupResultMinimizeLast(p, minimization_tolerance, minimize, id, r) ==
    LET annealing == p.simulated_annealing
        build == << Event("create_simulation", id, p.ensemble,
                          Rat(ScalarOf(p.temperature), 1)),
                    Event("setPositions", id, p.testsystem, Zero) >>
        mini  == IF minimize
                 THEN << Event("minimizeEnergy", id, minimization_tolerance,
                            Rat(MaxIterations, 1)) >>
                 ELSE <<>>
        ann   == IF annealing THEN AnnealEvents(p, id, 1) ELSE <<>>
        raised == annealing /\ BarostatRaises(p)
    IN [ events |-> build \o ann \o mini,
         err    |-> IF raised THEN "NameError" ELSE "none",
         handle |-> [ ensemble     |-> p.ensemble,
                      positions    |-> p.testsystem,
                      minimized    |-> IF minimize THEN 1 ELSE 0,
                      steps        |-> SumSteps(ann),
                      integrator_T |-> IF annealing
                                       THEN ann[Len(ann)].val
                                       ELSE Rat(ScalarOf(p.temperature), 1),
                      reporters    |-> <<>>,
                      run          |-> r ] ]

\* the result of _setup_simulation(parameters = p, minimize) building handle id
\* for the setup+run pair number r
SetupResult(p, minimization_tolerance, minimize, id, r) ==
    LET annealing == p.simulated_annealing
        build == << Event("create_simulation", id, p.ensemble,
                          Rat(ScalarOf(p.temperature), 1)),
                    Event("setPositions", id, p.testsystem, Zero) >>
        mini  == IF minimize
                 THEN << Event("minimizeEnergy", id, minimization_tolerance,
                            Rat(MaxIterations, 1)) >>
                 ELSE <<>>
        ann   == IF annealing THEN AnnealEvents(p, id, 1) ELSE <<>>
        raised == annealing /\ BarostatRaises(p)
    IN [ events |-> build \o mini \o ann,
         err    |-> IF raised THEN "NameError" ELSE "none",
         handle |-> [ ensemble     |-> p.ensemble,
                      positions    |-> p.testsystem,
                      minimized    |-> IF minimize THEN 1 ELSE 0,
                      steps        |-> SumSteps(ann),
                      integrator_T |-> IF annealing
                                       THEN ann[Len(ann)].val
                                       ELSE Rat(ScalarOf(p.temperature), 1),
                      reporters    |-> <<>>,
                      run          |-> r ] ]

-----------------------------------------------------------------------------
(* StabilityTest._run_simulation *)

ProgressInterval == 100

\* the three sinks appended to sim.reporters, in order
Sinks(p, rep) ==
    << [kind |-> "DCDReporter", file |-> output_file_name(p) \o ".dcd",
        interval |-> rep._reportInterval, ref |-> 0],
       [kind |-> "StateDataReporter", file |-> output_file_name(p) \o ".csv",
        interval |-> rep._reportInterval, ref |-> p.state_data_reporter],
       [kind |-> "ContinuousProgressReporter", file |-> "stdout",
        interval |-> ProgressInterval, ref |-> 0] >>

\* the simulation advanced before the sinks are attached
RunEventsStepFirst(p, rep, id) ==
    << Event("open", id, output_file_name(p) \o ".pdb", Zero),
       Event("open", id, output_file_name(p) \o ".csv", Zero),
       Event("step", id, "", Rat(p.protocol_length, 1)),
       Event("open", id, output_file_name(p) \o ".dcd", Zero),
       Event("reporters.append", id, "DCDReporter", Rat(rep._reportInterval, 1)),
       Event("reporters.append", id, "StateDataReporter", Rat(rep._reportInterval, 1)),
       Event("reporters.append", id, "ContinuousProgressReporter", Rat(ProgressInterval, 1)) >>

RunEvents(p, rep, id) ==
    << Event("open", id, output_file_name(p) \o ".pdb", Zero),
       Event("open", id, output_file_name(p) \o ".csv", Zero),
       Event("open", id, output_file_name(p) \o ".dcd", Zero),
       Event("reporters.append", id, "DCDReporter", Rat(rep._reportInterval, 1)),
       Event("reporters.append", id, "StateDataReporter", Rat(rep._reportInterval, 1)),
       Event("reporters.append", id, "ContinuousProgressReporter", Rat(ProgressInterval, 1)),
       Event("step", id, "", Rat(p.protocol_length, 1)) >>

\* reporter._out = open(...): the file the reporter held until now loses its
\* only reference
Rebind(fs, out) ==
    [k \in 1..Len(fs) |->
        IF fs[k].release = "reference" /\ fs[k].name = out
        THEN [fs[k] EXCEPT !.release = "dropped"]
        ELSE fs[k]]

RunFiles(p, r) ==
    << OutputFile(output_file_name(p) \o ".pdb", r, p.testsystem, "dropped"),
       OutputFile(output_file_name(p) \o ".csv", r, "state data", "reference"),
       OutputFile(output_file_name(p) \o ".dcd", r, "trajectory", "dropped") >>

-----------------------------------------------------------------------------
(* Parameter objects *)

StabilityTestParameters(len, t, ens, ann, env, testsystem, folder, name, rep) ==
    [ protocol_length     |-> len,
      temperature         |-> t,
      ensemble            |-> ens,
      simulated_annealing |-> ann,
      env                 |-> env,
      testsystem          |-> testsystem,
      output_folder       |-> folder,
      log_file_name       |-> name,
      state_data_reporter |-> rep ]

\* dataclasses.replace(parms): a new object whose fields hold the same values
\* and the same references as the original
Replace(p) == p

Temps == {300, 400}
\* StabilityTest.implemented_ensembles
Ensembles == {"npt", "nvt", "nve"}

\* the ensemble tags callers pass: the implemented ones and a spelling in
\* another letter case
EnsembleTags == Ensembles \cup {"NpT"}

MoleculeNames == {"ethane", "butane"}

\* the SMILES string of a molecule
SmilesOf(name) == IF name = "ethane" THEN "CC" ELSE "CCCC"

SeqsUpTo(S, n) == UNION {[1..k -> S] : k \in 0..n}

Temperatures == {IntTemp(t) : t \in Temps} \cup {ListTemp(s) : s \in SeqsUpTo(Temps, MaxTemps)}

Protocols == {"Propagation", "Multi"}
Runners == {"run_small_molecule_test", "run_waterbox_test", "run_organic_liquid_test"}

NoJob == [parms |-> 0, minimize |-> FALSE, sim |-> 0]
NoInput == [entry |-> "none", temperature |-> IntTemp(0), ensemble |-> "nvt",
            annealing |-> FALSE, protocol_length |-> 0, names |-> <<>>]
-----------------------------------------------------------------------------
(* Initial state: nothing has been called yet *)

NoScan == [active |-> FALSE]
NoDet == [active |-> FALSE]

Init ==
    /\ pc = "idle"
    /\ err = "none"
    /\ inp = NoInput
    /\ params = <<>>
    /\ reporters = <<>>
    /\ sims = <<>>
    /\ calls = <<>>
    /\ files = <<>>
    /\ proto = "none"
    /\ cur = 0
    /\ i = 0
    /\ mol = 0
    /\ run = 0
    /\ job = NoJob
    /\ scan = NoScan
    /\ det = NoDet

\* the caller's StateDataReporter(file=None, reportInterval=1, step=st)
NewReporter(st) == [_out |-> "None", _step |-> st, _reportInterval |-> 1]

-----------------------------------------------------------------------------
(* A caller builds StabilityTestParameters itself and invokes a protocol *)

CallProtocol ==
    \E cls \in Protocols, t \in Temperatures, ens \in EnsembleTags, ann \in BOOLEAN,
       len \in 1..MaxSteps, st \in BOOLEAN :
        /\ pc = "idle"
        /\ inp' = [entry |-> cls, temperature |-> t, ensemble |-> ens,
                   annealing |-> ann, protocol_length |-> len, names |-> <<>>]
        /\ reporters' = <<NewReporter(st)>>
        /\ params' = <<StabilityTestParameters(len, t, ens, ann, "vacuum",
                                               "testsystem", "out", "test", 1)>>
        /\ cur' = 1
        /\ proto' = cls
        /\ pc' = "perform_stability_test"
        /\ UNCHANGED <<err, sims, calls, files, i, mol, run, job, scan, det>>

(* A caller invokes one of the scenario runners *)
NrOfMolecules == 100

\* a str (one value) or a list of str
StrArg(s) == [isStr |-> TRUE, items |-> <<s>>]
StrList(s) == [isStr |-> FALSE, items |-> s]

\* an int (one value) or a list of int
IntArg(n) == [isInt |-> TRUE, items |-> <<n>>]
IntList(s) == [isInt |-> FALSE, items |-> s]

\* the lists of molecule names handed to a runner: the first 1..MaxMols
\* entries of ethane, butane, ethane, ...
NameLists ==
    {[k \in 1..len |-> IF k % 2 = 1 THEN "ethane" ELSE "butane"] : len \in 1..MaxMols}

\* the molecule arguments of a runner: names with smiles (a str, or a list
\* along the names) for run_small_molecule_test, molecule_name with
\* nr_of_molecule (an int, or a list along the names) for
\* run_organic_liquid_test, none for run_waterbox_test
NamesFor(r) ==
    IF r = "run_waterbox_test"
    THEN {[names |-> <<"water">>, smiles |-> StrList(<<>>),
           nr_of_molecule |-> IntList(<<>>)]}
    ELSE IF r = "run_small_molecule_test"
    THEN UNION {{[names |-> n, smiles |-> s, nr_of_molecule |-> IntList(<<>>)] :
                    s \in {StrArg(SmilesOf(n[1])),
                           StrList([k \in 1..Len(n) |-> SmilesOf(n[k])])}} :
                n \in NameLists}
    ELSE UNION {{[names |-> n, smiles |-> StrList(<<>>), nr_of_molecule |-> c] :
                    c \in {IntArg(NrOfMolecules),
                           IntList([k \in 1..Len(n) |-> NrOfMolecules])}} :
                n \in NameLists}

CallRunner ==
    \E r \in Runners, t \in Temperatures, ens \in EnsembleTags, ann \in BOOLEAN,
       len \in 1..MaxSteps, st \in BOOLEAN :
        \E a \in NamesFor(r) :
            /\ pc = "idle"
            /\ r = "run_small_molecule_test" => ens = "nvt" /\ ~ann
            /\ inp' = [entry |-> r, temperature |-> t, ensemble |-> ens,
                       annealing |-> ann, protocol_length |-> len,
                       names |-> a.names, smiles |-> a.smiles,
                       nr_of_molecule |-> a.nr_of_molecule]
            /\ reporters' = <<NewReporter(st)>>
            /\ mol' = 1
            /\ pc' = r
            /\ UNCHANGED <<err, params, sims, calls, files, proto, cur, i, run,
                           job, scan, det>>

-----------------------------------------------------------------------------
(* Scenario runners: build the parameters and select the protocol *)

NnpName == "ani2x"
EdgeLength == 5

\* str(names) of a list of str: ['a', 'b']
RECURSIVE JoinNames(_)
JoinNames(names) ==
    IF Len(names) = 0 THEN ""
    ELSE "'" \o names[1] \o "'"
         \o (IF Len(names) > 1 THEN ", " ELSE "") \o JoinNames(Tail(names))

\* [nr_of_molecule] if isinstance(nr_of_molecule, int) else nr_of_molecule
Listify(x) == x.items

\* the name of the molecule of pass k of run_small_molecule_test: the whole of
\* names when smiles is a str, the k-th name of zip(smiles, names) otherwise
SmallMoleculeName(smiles, names, k) ==
    IF smiles.isStr THEN "[" \o JoinNames(names) \o "]" ELSE names[k]

\* the number of passes a runner makes: one for a str smiles and for the
\* waterbox, the length of the shorter list for zip(...)
Passes(a) ==
    IF a.entry = "run_small_molecule_test"
    THEN IF a.smiles.isStr THEN 1 ELSE Min(Len(a.smiles.items), Len(a.names))
    ELSE IF a.entry = "run_organic_liquid_test"
    THEN Min(Len(a.names), Len(Listify(a.nr_of_molecule)))
    ELSE 1

\* run_small_molecule_test._run_protocol: the protocol class chosen
SmallMoleculeProtocol(t) == IF IsList(t) THEN "Multi" ELSE "Propagation"

\* run_waterbox_test: the protocol class chosen
WaterboxProtocol(t) == "Propagation"

\* run_organic_liquid_test: the protocol class chosen
OrganicLiquidProtocol(t) == "Propagation"

WaterboxLogFileName(ens, t) ==
    "waterbox_" \o IntStr(EdgeLength) \o "A_" \o NnpName \o "_" \o ens
        \o (IF IsList(t) THEN "_multi-temp" ELSE "_" \o PyStr(t) \o "K")

OrganicLiquidLogFileName(name, nr_of_molecules, ens, t) ==
    "pure_liquid_" \o name \o "_" \o IntStr(nr_of_molecules) \o "_" \o NnpName
        \o "_" \o ens \o "_" \o (IF IsInt(t) THEN PyStr(t) \o "K" ELSE "multi-temp")

\* the testsystem is generated from the option and the system initialized,
\* then the parameters are built and handed to the protocol
Dispatch(opt, cls, p) ==
    /\ calls' = calls \o << Event("generate_testsystem", 0, opt, Zero),
                            Event("initialize_system", 0, NnpName, Zero) >>
    /\ params' = Append(params, p)
    /\ cur' = Len(params) + 1
    /\ proto' = cls
    /\ pc' = "perform_stability_test"
    /\ UNCHANGED <<err, inp, reporters, sims, files, i, mol, run, job, scan, det>>

\* one pass: the single call for a str smiles, or one element of
\* zip(smiles, names)
run_small_molecule_test ==
    /\ pc = "run_small_molecule_test"
    /\ LET name == SmallMoleculeName(inp.smiles, inp.names, mol)
       IN Dispatch("SmallMoleculeVacuumOption",
                   SmallMoleculeProtocol(inp.temperature),
                   StabilityTestParameters(inp.protocol_length, inp.temperature,
                       "nvt", FALSE, "vacuum", name, "out", "vacuum_" \o name, 1))

run_waterbox_test ==
    /\ pc = "run_waterbox_test"
    /\ Dispatch("LiquidOption", WaterboxProtocol(inp.temperature),
                StabilityTestParameters(inp.protocol_length, inp.temperature,
                    inp.ensemble, inp.annealing, "solution", "water", "out",
                    WaterboxLogFileName(inp.ensemble, inp.temperature), 1))

\* one pass over zip(molecule_names, nr_of_molecules)
run_organic_liquid_test ==
    /\ pc = "run_organic_liquid_test"
    /\ LET name == inp.names[mol]
           nr_of_molecules == Listify(inp.nr_of_molecule)[mol]
       IN Dispatch("LiquidOption", OrganicLiquidProtocol(inp.temperature),
                   StabilityTestParameters(inp.protocol_length, inp.temperature,
                       inp.ensemble, inp.annealing, "solution", name, "out",
                       OrganicLiquidLogFileName(name, nr_of_molecules, inp.ensemble,
                                                inp.temperature), 1))

-----------------------------------------------------------------------------
(* PropagationProtocol.perform_stability_test *)

\* parms.log_file_name = f"{parms.log_file_name}_{parms.temperature}"
PropagationName(p) == p.log_file_name \o "_" \o PyStr(p.temperature)

PropagationMinimize == TRUE

PropagationProtocol_perform_stability_test ==
    /\ pc = "perform_stability_test"
    /\ proto = "Propagation"
    /\ IF ~IsInt(params[cur].temperature)
       THEN /\ err' = "AssertionError"
            /\ pc' = "raised"
            /\ UNCHANGED <<params, job>>
       ELSE /\ params' = [params EXCEPT ![cur].log_file_name = PropagationName(params[cur])]
            /\ job' = [parms |-> cur, minimize |-> PropagationMinimize, sim |-> 0]
            /\ pc' = "_setup_simulation"
            /\ err' = err
    /\ UNCHANGED <<inp, reporters, sims, calls, files, proto, cur, i, mol, run,
                   scan, det>>

-----------------------------------------------------------------------------
(* MultiTemperatureProtocol.perform_stability_test *)

\* _parms.log_file_name = f"{parms.log_file_name}_{temperature}K"
MultiName(p, temperature) == p.log_file_name \o "_" \o IntStr(temperature) \o "K"

MultiMinimize == FALSE

\* the list walked from its end
ReversedTemperature(t, k) == t.items[Len(t.items) - k + 1]

\* the temperature of the k-th pass of `for temperature in parms.temperature`
LoopTemperature(t, k) == t.items[k]

\* the type check at the head of the method
MultiTemperatureProtocol_perform_stability_test ==
    /\ pc = "perform_stability_test"
    /\ proto = "Multi"
    /\ IF ~IsList(params[cur].temperature)
       THEN /\ err' = "RuntimeError"
            /\ pc' = "raised"
            /\ i' = i
       ELSE /\ i' = 0
            /\ pc' = "multi_loop"
            /\ err' = err
    /\ UNCHANGED <<inp, params, reporters, sims, calls, files, proto, cur, mol,
                   run, job, scan, det>>

\* head of the loop body: clone the parameters for the next temperature
MultiTemperatureLoop ==
    /\ pc = "multi_loop"
    /\ IF i < Len(params[cur].temperature.items)
       THEN LET temperature == LoopTemperature(params[cur].temperature, i + 1)
                _parms == [Replace(params[cur]) EXCEPT
                              !.temperature = IntTemp(temperature),
                              !.log_file_name = MultiName(params[cur], temperature)]
            IN /\ params' = Append(params, _parms)
               /\ job' = [parms |-> Len(params) + 1, minimize |-> MultiMinimize,
                          sim |-> 0]
               /\ pc' = "_setup_simulation"
       ELSE /\ pc' = "returned"
            /\ UNCHANGED <<params, job>>
    /\ UNCHANGED <<err, inp, reporters, sims, calls, files, proto, cur, i, mol,
                   run, scan, det>>

-----------------------------------------------------------------------------
(* The setup+run pair shared by both protocols *)

\* the handle of an earlier setup handed out again
FirstHandle(handles) == 1

\* SimulationFactory.create_simulation returns a new Simulation object
FreshHandle(handles) == Len(handles) + 1

_setup_simulation ==
    /\ pc = "_setup_simulation"
    /\ LET id == FreshHandle(sims)
           res == SetupResult(params[job.parms], DefaultTolerance, job.minimize, id,
                              run + 1)
       IN /\ calls' = calls \o res.events
          /\ sims' = Append(sims, res.handle)
          /\ IF res.err = "none"
             THEN /\ job' = [job EXCEPT !.sim = id]
                  /\ pc' = "_run_simulation"
                  /\ err' = err
             ELSE /\ err' = res.err
                  /\ pc' = "raised"
                  /\ job' = job
    /\ UNCHANGED <<inp, params, reporters, files, proto, cur, i, mol, run, scan, det>>

_run_simulation ==
    /\ pc = "_run_simulation"
    /\ LET p == params[job.parms]
           rid == p.state_data_reporter
           rep == reporters[rid]
       IN /\ calls' = calls \o RunEvents(p, rep, job.sim)
          /\ files' = Rebind(files, rep._out) \o RunFiles(p, run + 1)
          /\ reporters' = [reporters EXCEPT
                              ![rid]._out = output_file_name(p) \o ".csv",
                              ![rid]._step = TRUE]
          /\ sims' = [sims EXCEPT
                         ![job.sim].reporters = @ \o Sinks(p, rep),
                         ![job.sim].steps = @ + p.protocol_length]
    /\ run' = run + 1
    /\ IF proto = "Multi"
       THEN /\ i' = i + 1
            /\ pc' = "multi_loop"
       ELSE /\ i' = i
            /\ pc' = "returned"
    /\ UNCHANGED <<err, inp, params, proto, cur, mol, job, scan, det>>

\* perform_stability_test has returned to its caller
Return ==
    /\ pc = "returned"
    /\ IF inp.entry \in Runners /\ mol < Passes(inp)
       THEN /\ mol' = mol + 1
            /\ pc' = inp.entry
       ELSE /\ mol' = mol
            /\ pc' = "done"
    /\ UNCHANGED <<err, inp, params, reporters, sims, calls, files, proto, cur, i,
                   run, job, scan, det>>

Next ==
    \/ CallProtocol
    \/ CallRunner
    \/ run_small_molecule_test
    \/ run_waterbox_test
    \/ run_organic_liquid_test
    \/ PropagationProtocol_perform_stability_test
    \/ MultiTemperatureProtocol_perform_stability_test
    \/ MultiTemperatureLoop
    \/ _setup_simulation
    \/ _run_simulation
    \/ Return

Spec == Init /\ [][Next]_vars
-----------------------------------------------------------------------------
(* Properties of the protocols *)

Finished == pc \in {"done", "raised"}

\* the engine calls made on simulation handles, in order (the scenario
\* runners' testsystem and system construction is on no handle)
OnHandle(e) == e.sim > 0
HandleCalls == SelectSeq(calls, OnHandle)

\* C1: MultiTemperatureProtocol.perform_stability_test given a temperature
\* that is not a list raises RuntimeError before any engine call: no
\* simulation is created, nothing is positioned or stepped, no file is opened.
C1_ScalarToMultiRaisesFirst ==
    (proto = "Multi" /\ ~params[cur].temperature.isList
        /\ pc # "perform_stability_test")
    => /\ pc = "raised"
       /\ err = "RuntimeError"
       /\ sims = <<>>
       /\ calls = <<>>
       /\ files = <<>>

C1_Witness ==
    /\ proto = "Multi"
    /\ inp.temperature = IntTemp(300)
    /\ pc = "raised"
    /\ err = "RuntimeError"

\* C2 (as claimed, for the invocations that return): whenever
\* MultiTemperatureProtocol is given a list, the number of setup+run pairs
\* equals the length of the list and files of different runs have different
\* names.
C2_RunsEqualLengthNoCollision ==
    (inp.entry = "Multi" /\ inp.temperature.isList /\ pc = "done")
    => /\ run = Len(inp.temperature.items)
       /\ \A a, b \in 1..Len(files) :
             files[a].run # files[b].run => files[a].name # files[b].name

\* C6: MultiTemperatureProtocol works through the list in order, one
\* temperature after the other: the k-th clone carries the k-th temperature
\* and the name suffixed _{T}K, the k-th handle is built for the k-th
\* temperature, no minimization is ever requested, and a handle is created
\* only after the previous run has taken its protocol_length steps; on normal
\* return every temperature has been run.
C6_MultiInOrderSequential ==
    proto = "Multi" =>
      LET items == inp.temperature.items
          L == Len(items)
          hc == HandleCalls
      IN /\ \A k \in 1..(Len(params) - cur) :
               /\ k <= L
               /\ params[cur + k].temperature = [isList |-> FALSE, items |-> <<items[k]>>]
               /\ params[cur + k].log_file_name =
                      params[cur].log_file_name \o "_" \o IntStr(items[k]) \o "K"
         /\ \A j \in 1..Len(hc) :
               /\ hc[j].op # "minimizeEnergy"
               /\ \A k \in j..Len(hc) : hc[j].sim <= hc[k].sim
               /\ hc[j].op = "create_simulation" =>
                     /\ hc[j].val = <<items[((hc[j].sim - 1) % L) + 1], 1>>
                     /\ j > 1 => hc[j - 1] =
                            [op |-> "step", sim |-> hc[j].sim - 1, what |-> "",
                             val |-> <<inp.protocol_length, 1>>]
         /\ pc = "done" => run = L * (IF inp.entry \in Runners THEN Passes(inp) ELSE 1)

C6_Witness ==
    /\ inp.entry = "Multi"
    /\ inp.temperature = ListTemp(<<400, 300>>)
    /\ pc = "done"
    /\ run = 2

\* C7 (as claimed): the runs of one MultiTemperatureProtocol invocation share
\* no mutable object: no StateDataReporter is attached to the handles of two
\* runs, and the logger attached to a run still writes to that run's file.
C7_NoSharedMutableState ==
    proto = "Multi" =>
      \A a, b \in 1..Len(sims) :
        \A x \in 1..Len(sims[a].reporters), y \in 1..Len(sims[b].reporters) :
          LET sx == sims[a].reporters[x]
              sy == sims[b].reporters[y]
          IN sx.ref # 0 =>
                /\ reporters[sx.ref]._out = sx.file
                /\ a # b => sx.ref # sy.ref

\* C8 (as claimed): PropagationProtocol with a scalar temperature T performs
\* one setup with minimization and then one run of protocol_length steps, the
\* minimization coming before every sink and the production step, and the
\* files are out/test_T.{pdb,csv,dcd}.
C8_PropagationOneMinimizedRun ==
    (inp.entry = "Propagation" /\ ~inp.temperature.isList /\ Finished)
    => /\ err = "none"
       /\ Len(sims) = 1
       /\ run = 1
       /\ sims[1].minimized = 1
       /\ Len(calls) > 0
       /\ calls[Len(calls)] = [op |-> "step", sim |-> 1, what |-> "",
                              val |-> <<inp.protocol_length, 1>>]
       /\ \A j, k \in 1..Len(calls) :
             (calls[j].op = "minimizeEnergy"
                 /\ (calls[k].op = "reporters.append" \/ k = Len(calls))) => j < k
       /\ {files[k].name : k \in 1..Len(files)} =
             {"out/test_" \o IntStr(inp.temperature.items[1]) \o ext :
                 ext \in {".pdb", ".csv", ".dcd"}}

\* C9: PropagationProtocol.perform_stability_test given a list-valued
\* temperature fails its assertion and does nothing else: no handle, no
\* engine call, no file, and no change to any parameters or reporter object.
C9_ListToPropagationRaisesFirst ==
    [][ (pc = "perform_stability_test" /\ proto = "Propagation"
            /\ params[cur].temperature.isList)
        => /\ pc' = "raised"
           /\ err' = "AssertionError"
           /\ params' = params
           /\ reporters' = reporters
           /\ sims' = sims /\ sims = <<>>
           /\ calls' = calls /\ HandleCalls = <<>>
           /\ files' = files /\ files = <<>> ]_vars

C9_Witness ==
    /\ proto = "Propagation"
    /\ inp.entry = "Propagation"
    /\ inp.temperature = ListTemp(<<300, 400>>)
    /\ pc = "raised"
    /\ err = "AssertionError"
    /\ params[1].log_file_name = "test"

\* C10 (as claimed): every scenario runner sends a list-valued temperature to
\* MultiTemperatureProtocol, which completes one run per temperature (and per
\* molecule), and a scalar temperature to PropagationProtocol.
C10_RunnersDispatchByShape ==
    (inp.entry \in Runners /\ Finished)
    => IF inp.temperature.isList
       THEN /\ proto = "Multi"
            /\ err = "none"
            /\ run = Passes(inp) * Len(inp.temperature.items)
       ELSE proto = "Propagation"

-----------------------------------------------------------------------------
(* Properties of _setup_simulation, read off the trace right after the call: *)
(* the handle it built is the last one, from the parameters of the job       *)

SetupLeft ==
    \/ pc = "_run_simulation"
    \/ pc = "raised" /\ err = "NameError" /\ Len(sims) > 0

\* positions in the trace of the calls named op made on handle id
CallsOn(id, op) == {j \in 1..Len(calls) : calls[j].sim = id /\ calls[j].op = op}

\* the k-th smallest element of a set of positions
Nth(S, k) == CHOOSE j \in S : Cardinality({x \in S : x <= j}) = k

\* C12 (as claimed): with simulated_annealing set, setup returns after exactly
\* 10 stages of 100 steps (1000 steps), the k-th stage setting the integrator
\* temperature to the k-th of 10 values evenly spaced from 0 to the target,
\* the last one being the target; without the flag setup takes no step and
\* sets no temperature.
C12_AnnealingTenStages ==
    SetupLeft =>
      LET id == Len(sims)
          p == params[job.parms]
          T == p.temperature.items[1]
          steps == CallsOn(id, "step")
          temps == CallsOn(id, "setTemperature")
      IN IF p.simulated_annealing
         THEN /\ pc = "_run_simulation"
              /\ Cardinality(steps) = 10
              /\ \A j \in steps : calls[j].val = <<100, 1>>
              /\ sims[id].steps = 1000
              /\ Cardinality(temps) = 10
              /\ \A k \in 1..10 :
                    LET v == calls[Nth(temps, k)].val
                    IN /\ v[1] * 9 = T * (k - 1) * v[2]
                       /\ Nth(steps, k) < Nth(temps, k)
                       /\ k < 10 => Nth(temps, k) < Nth(steps, k + 1)
              /\ sims[id].integrator_T = <<T, 1>>
         ELSE /\ steps = {}
              /\ temps = {}
              /\ sims[id].steps = 0
              /\ sims[id].integrator_T = <<T, 1>>

\* C13 (as claimed): with simulated_annealing set and the npt ensemble, setup
\* sets the barostat temperature to the stage temperature in each of the 10
\* stages and returns the handle; for the other ensembles no barostat call is
\* made.
C13_BarostatFollowsStages ==
    SetupLeft =>
      LET id == Len(sims)
          p == params[job.parms]
          temps == CallsOn(id, "setTemperature")
          baro == CallsOn(id, "setDefaultTemperature")
      IN IF p.simulated_annealing /\ p.ensemble = "npt"
         THEN /\ pc = "_run_simulation"
              /\ err = "none"
              /\ Cardinality(baro) = 10
              /\ \A k \in 1..10 :
                    calls[Nth(baro, k)].val = calls[Nth(temps, k)].val
         ELSE baro = {}

\* the integrator temperature under which call j on handle id runs: the value
\* of the last setTemperature on the handle before it, and before the first
\* one the temperature the simulation was created with
TemperatureInEffect(id, j) ==
    LET before == {x \in CallsOn(id, "setTemperature") : x < j}
    IN IF before = {}
       THEN calls[Nth(CallsOn(id, "create_simulation"), 1)].val
       ELSE calls[Nth(before, Cardinality(before))].val

\* C29 (as claimed): during simulated annealing the k-th block of 100 steps
\* runs under the temperature of the k-th stage: the first block at 0, the
\* temperature in effect non-decreasing from block to block, and no block
\* above the value of the stage it belongs to.
C29_StageTemperatureInEffect ==
    SetupLeft =>
      LET id == Len(sims)
          p == params[job.parms]
          T == p.temperature.items[1]
          steps == CallsOn(id, "step")
          n == Cardinality(steps)
      IN p.simulated_annealing =>
            /\ n >= 1
            /\ TemperatureInEffect(id, Nth(steps, 1)) = Zero
            /\ \A k \in 1..n :
                  LET here == TemperatureInEffect(id, Nth(steps, k))
                  IN /\ RatLeq(here, linspace(Zero, <<T, 1>>, AnnealingStages, k))
                     /\ k < n =>
                          RatLeq(here, TemperatureInEffect(id, Nth(steps, k + 1)))

UpperCase == "ABCDEFGHIJKLMNOPQRSTUVWXYZ"
LowerCase == "abcdefghijklmnopqrstuvwxyz"

\* str.lower of one character
LowerChar(c) ==
    IF \E k \in 1..Len(UpperCase) : SubSeq(UpperCase, k, k) = c
    THEN LET k == CHOOSE k \in 1..Len(UpperCase) : SubSeq(UpperCase, k, k) = c
         IN SubSeq(LowerCase, k, k)
    ELSE c

\* str.lower
RECURSIVE Lower(_)
Lower(str) ==
    IF Len(str) = 0 THEN ""
    ELSE LowerChar(SubSeq(str, 1, 1)) \o Lower(SubSeq(str, 2, Len(str)))

\* a sequence of engine calls with the letter case of the ensemble tag erased
FoldTag(ev) == [j \in 1..Len(ev) |-> [ev[j] EXCEPT !.what = Lower(@)]]

\* the part of the trace made on handle id
TraceOf(id) ==
    LET S == {j \in 1..Len(calls) : calls[j].sim = id}
    IN [k \in 1..Cardinality(S) |-> calls[Nth(S, k)]]

\* C14 (as claimed): the calls setup made are the calls it makes for the same
\* parameters with the ensemble tag written in any other letter case, and it
\* fails for the one exactly when it fails for the other; for an annealing
\* setup of an npt ensemble, however written, these calls include the ten
\* barostat updates.
C14_EnsembleCaseInsensitive ==
    SetupLeft =>
      LET id == Len(sims)
          p == params[job.parms]
      IN /\ \A e \in EnsembleTags :
               Lower(e) = Lower(p.ensemble) =>
                 LET other == SetupResult([p EXCEPT !.ensemble = e], DefaultTolerance,
                                          job.minimize, id, sims[id].run)
                 IN /\ FoldTag(other.events) = FoldTag(TraceOf(id))
                    /\ (other.err = "none") = (pc = "_run_simulation")
         /\ (p.simulated_annealing /\ Lower(p.ensemble) = "npt") =>
               Cardinality(CallsOn(id, "setDefaultTemperature")) = 10

-----------------------------------------------------------------------------
(* Properties of _run_simulation, read off once the call has returned *)

RunLeft == job.sim > 0 /\ pc \in {"multi_loop", "returned", "done"}

\* C15: the calls of _run_simulation on its handle are, in this order: the
\* snapshot file is opened, three sinks are attached (a trajectory writer at
\* the report interval of the tabular logger, the tabular logger itself,
\* writing to {output_folder}/{log_file_name}.csv, and a progress reporter),
\* and then one step call of protocol_length steps, which is the last call.
C15_SnapshotSinksThenSteps ==
    RunLeft =>
      LET id == job.sim
          p == params[job.parms]
          name == p.output_folder \o "/" \o p.log_file_name
          logger == reporters[p.state_data_reporter]
          mine == {j \in 1..Len(calls) : calls[j].sim = id}
          snapshot == {j \in mine : calls[j].op = "open" /\ calls[j].what = name \o ".pdb"}
          appends == {j \in mine : calls[j].op = "reporters.append"}
          after == {j \in mine : \E j0 \in snapshot : j > j0}
          steps == {j \in after : calls[j].op = "step"}
      IN /\ Cardinality(snapshot) = 1
         /\ \A j \in mine : calls[j].op = "open" => \A j0 \in snapshot : j0 <= j
         /\ Cardinality(appends) = 3
         /\ appends \subseteq after
         /\ calls[Nth(appends, 1)].what = "DCDReporter"
         /\ calls[Nth(appends, 1)].val = <<logger._reportInterval, 1>>
         /\ calls[Nth(appends, 2)].what = "StateDataReporter"
         /\ calls[Nth(appends, 3)].what = "ContinuousProgressReporter"
         /\ Len(sims[id].reporters) = 3
         /\ sims[id].reporters[1].kind = "DCDReporter"
         /\ sims[id].reporters[1].file = name \o ".dcd"
         /\ sims[id].reporters[1].interval = logger._reportInterval
         /\ sims[id].reporters[2].ref = p.state_data_reporter
         /\ sims[id].reporters[3].kind = "ContinuousProgressReporter"
         /\ logger._out = name \o ".csv"
         /\ Cardinality(steps) = 1
         /\ \A j \in steps :
               /\ calls[j].val = <<p.protocol_length, 1>>
               /\ \A k \in mine : k <= j
               /\ \A k \in appends : k < j

C15_Witness ==
    /\ inp.entry = "Propagation"
    /\ pc = "done"
    /\ inp.annealing
    /\ inp.protocol_length = 2
    /\ Len(sims[1].reporters) = 3
    /\ calls[Len(calls)] = [op |-> "step", sim |-> 1, what |-> "", val |-> <<2, 1>>]
    /\ calls[Len(calls) - 1].op = "reporters.append"

\* C22: every handle is created by exactly one create_simulation call, which
\* is the first call made on it; every call is made on the newest handle, so
\* no handle is used again once a later setup has started; two handles never
\* belong to the same setup+run pair, and _run_simulation works on the handle
\* the setup of its own pair returned.
C22_HandleOwnedByOneRun ==
    /\ \A j \in 1..Len(HandleCalls) :
          /\ HandleCalls[j].sim \in 1..Len(sims)
          /\ \A k \in j..Len(HandleCalls) : HandleCalls[j].sim <= HandleCalls[k].sim
    /\ \A id \in 1..Len(sims) :
          /\ Cardinality(CallsOn(id, "create_simulation")) = 1
          /\ \A j \in 1..Len(calls) : calls[j].sim = id =>
                \A c \in CallsOn(id, "create_simulation") : c <= j
          /\ \A other \in 1..Len(sims) : other # id => sims[other].run # sims[id].run
    /\ (pc = "_run_simulation") => job.sim = Len(sims) /\ sims[job.sim].run = run + 1
    /\ RunLeft => job.sim = Len(sims) /\ sims[job.sim].run = run

C22_Witness ==
    /\ inp.entry = "Multi"
    /\ inp.temperature = ListTemp(<<300, 400>>)
    /\ pc = "done"
    /\ Len(sims) = 2
    /\ sims[1].steps = inp.protocol_length
    /\ sims[2].steps = inp.protocol_length
    /\ sims[1].run = 1
    /\ sims[2].run = 2

\* C23: the calls of _setup_simulation on its handle are, in this order:
\* create_simulation, setPositions with the testsystem's positions, then
\* minimizeEnergy exactly once if minimize is true (with the tolerance given
\* and at most 1000 iterations) and not at all otherwise, then the step and
\* setTemperature calls of the annealing if and only if annealing is enabled;
\* no minimizeEnergy follows a step, and setPositions precedes both.
C23_SetupOrder ==
    SetupLeft =>
      LET id == Len(sims)
          p == params[job.parms]
          T == TraceOf(id)
          first == IF job.minimize THEN 4 ELSE 3
      IN /\ Len(T) >= 2
         /\ T[1].op = "create_simulation"
         /\ T[2] = [op |-> "setPositions", sim |-> id, what |-> p.testsystem,
                    val |-> <<0, 1>>]
         /\ Cardinality(CallsOn(id, "minimizeEnergy")) = (IF job.minimize THEN 1 ELSE 0)
         /\ job.minimize =>
               T[3] = [op |-> "minimizeEnergy", sim |-> id, what |-> "1 kJ/mol/A",
                       val |-> <<1000, 1>>]
         /\ \A j \in first..Len(T) : T[j].op \in {"step", "setTemperature"}
         /\ (Len(T) >= first) = p.simulated_annealing
         /\ \A j \in CallsOn(id, "minimizeEnergy"), k \in CallsOn(id, "step") : j < k
         /\ \A j \in CallsOn(id, "setPositions") :
               \A k \in CallsOn(id, "minimizeEnergy") \cup CallsOn(id, "step") : j < k

C23_Witness ==
    /\ pc = "_run_simulation"
    /\ job.minimize
    /\ params[job.parms].simulated_annealing
    /\ Len(TraceOf(Len(sims))) = 23
    /\ TraceOf(Len(sims))[3].op = "minimizeEnergy"
    /\ TraceOf(Len(sims))[4].op = "step"

\* a file that is certainly open: never closed by the code and still
\* referenced; a file whose last reference was dropped counts as released
StillOpen(f) == f.release = "reference"

\* C16 (as claimed, for the files of _run_simulation): when a protocol
\* invocation has returned or raised, no file it opened is still open, and
\* no file of an earlier run is open when the setup of the next run starts.
C16_FilesClosedOnReturn ==
    /\ Finished => \A k \in 1..Len(files) : ~StillOpen(files[k])
    /\ pc = "_setup_simulation" =>
          \A k \in 1..Len(files) : files[k].run <= run => ~StillOpen(files[k])

\* C17 (as claimed): throughout and after a protocol invocation, the
\* parameters object the caller built and passed in (the object cur refers
\* to) holds in every field the value the caller gave it.
C17_CallerParametersUntouched ==
    (inp.entry \in Protocols /\ cur > 0) =>
        params[cur] = StabilityTestParameters(inp.protocol_length, inp.temperature,
                          inp.ensemble, inp.annealing, "vacuum", "testsystem",
                          "out", "test", 1)
-----------------------------------------------------------------------------
(* Geometry: coordinates are vectors of three rationals; a Quantity pairs    *)
(* an array of coordinates with its length unit.                             *)

VecAdd(a, b) == <<RatAdd(a[1], b[1]), RatAdd(a[2], b[2]), RatAdd(a[3], b[3])>>
VecSub(a, b) == <<RatSub(a[1], b[1]), RatSub(a[2], b[2]), RatSub(a[3], b[3])>>
VecScale(a, r) == <<RatMul(a[1], r), RatMul(a[2], r), RatMul(a[3], r)>>
SumSq(a) == RatAdd(RatMul(a[1], a[1]), RatAdd(RatMul(a[2], a[2]), RatMul(a[3], a[3])))

IsSquare(n) == \E r \in 0..n : r * r = n
ISqrt(n) == CHOOSE r \in 0..n : r * r = n
\* numpy.linalg.norm, for the vectors whose norm is rational
Norm(a) == LET q == SumSq(a) IN <<ISqrt(q[1]), ISqrt(q[2])>>
HasRationalNorm(a) == LET q == SumSq(a) IN IsSquare(q[1]) /\ IsSquare(q[2])
RatInv(a) == Rat(a[2], a[1])

AngstromPerNanometer == 10

\* the factor that turns a value in unit `from` into a value in unit `to`
UnitFactor(from, to) ==
    IF from = to THEN <<1, 1>>
    ELSE IF from = "nanometer" THEN Rat(AngstromPerNanometer, 1)
    ELSE Rat(1, AngstromPerNanometer)

\* Quantity.value_in_unit for an array of coordinates
value_in_unit(q, u) ==
    [a \in DOMAIN q.value |-> VecScale(q.value[a], UnitFactor(q.unit, u))]

Quantity(value, u) == [unit |-> u, value |-> value]

-----------------------------------------------------------------------------
(* BondProfileProtocol.set_bond_length *)

\* both atoms of the bond moved apart
set_bond_length_moving_both(positions, atom1, atom2, length) ==
    LET position_in_angstrom == value_in_unit(positions, "angstrom")
        diff == VecSub(position_in_angstrom[atom2], position_in_angstrom[atom1])
        normalized_diff == VecScale(diff, RatInv(Norm(diff)))
    IN Quantity([position_in_angstrom EXCEPT
                    ![atom1] = VecSub(position_in_angstrom[atom1],
                                      VecScale(normalized_diff, length)),
                    ![atom2] = VecAdd(position_in_angstrom[atom1],
                                      VecScale(normalized_diff, length))],
                "angstrom")

\* the second atom moved along the bond starting from its own position
set_bond_length_from_atom2(positions, atom1, atom2, length) ==
    LET position_in_angstrom == value_in_unit(positions, "angstrom")
        diff == VecSub(position_in_angstrom[atom2], position_in_angstrom[atom1])
        normalized_diff == VecScale(diff, RatInv(Norm(diff)))
    IN Quantity([position_in_angstrom EXCEPT
                    ![atom2] = VecAdd(position_in_angstrom[atom2],
                                      VecScale(normalized_diff, length))],
                "angstrom")

set_bond_length(positions, atom1, atom2, length) ==
    LET position_in_angstrom == value_in_unit(positions, "angstrom")
        diff == VecSub(position_in_angstrom[atom2], position_in_angstrom[atom1])
        normalized_diff == VecScale(diff, RatInv(Norm(diff)))
    IN Quantity([position_in_angstrom EXCEPT
                    ![atom2] = VecAdd(position_in_angstrom[atom1],
                                      VecScale(normalized_diff, length))],
                "angstrom")

-----------------------------------------------------------------------------
(* DOFTest.perform_scan and BondProfileProtocol.perform_DOF_scan *)

NumSamples == 100

\* the scan started one step into the range
ScanLengthShifted(max, k) == linspace(Zero, max, NumSamples, IF k < NumSamples THEN k + 1 ELSE k)

\* the k-th value of np.linspace(0, max_bond_stretch, 100)
ScanLength(max, k) == linspace(Zero, max, NumSamples, k)

\* state.getPotentialEnergy(): the engine's energy function is not part of
\* this program, so the energy of a geometry is the uninterpreted term
\* "energy at that geometry"
getPotentialEnergy(value) == [energy_at |-> value]

V(x, y, z) == <<Rat(x, 1), Rat(y, 1), Rat(z, 1)>>

\* input geometries, in Angstrom
Geometries ==
    { << V(0, 0, 0), V(3, 4, 0), V(3, 0, 0) >>,
      << V(1, 1, 1), V(1, 1, 3), V(4, 5, 3) >> }

Units == {"angstrom", "nanometer"}

\* testsystem.positions holding geometry g expressed in unit u
InUnit(g, u) == Quantity([a \in DOMAIN g |-> VecScale(g[a], UnitFactor("angstrom", u))], u)

ScanFileName == "out/DOF_scan_ethanol_ani2x"

CallScan ==
    \E g \in Geometries, u \in Units, atom1 \in 1..3, atom2 \in 1..3,
       max \in 0..MaxStretch, given \in BOOLEAN :
        /\ pc = "idle"
        /\ atom1 # atom2
        /\ HasRationalNorm(VecSub(g[atom2], g[atom1]))
        /\ ~given => atom1 = 1 /\ atom2 = 2
        /\ scan' = [ active          |-> TRUE,
                     entry           |-> "perform_scan",
                     definition      |-> {"bond"},
                     positions       |-> InUnit(g, u),
                     bond            |-> IF given THEN <<atom1, atom2>> ELSE <<>>,
                     bond_length_max |-> Rat(max, 1),
                     context         |-> Quantity(<<>>, "nanometer"),
                     k               |-> 0,
                     potential_energy |-> <<>>,
                     conformations   |-> <<>>,
                     bond_length     |-> <<>>,
                     rows            |-> <<>> ]
        /\ pc' = "setup_simulation"
        /\ UNCHANGED <<err, calls, files, det>>
        /\ UNCHANGED protoVars

(* A caller invokes run_DOF_scan with a DOF_definition, here the set of its *)
(* keys; the bond, when there is one, joins the first two atoms or is an    *)
(* empty list                                                               *)

DOFKeys == {"bond", "angle", "torsion"}

CallDOFScan ==
    \E DOF_definition \in SUBSET DOFKeys, g \in Geometries, max \in 0..MaxStretch,
       bond \in {<<1, 2>>, <<>>} :
        /\ pc = "idle"
        /\ "bond" \notin DOF_definition => bond = <<>>
        /\ scan' = [ active          |-> TRUE,
                     entry           |-> "run_DOF_scan",
                     definition      |-> DOF_definition,
                     positions       |-> InUnit(g, "nanometer"),
                     bond            |-> bond,
                     bond_length_max |-> Rat(max, 1),
                     context         |-> Quantity(<<>>, "nanometer"),
                     k               |-> 0,
                     potential_energy |-> <<>>,
                     conformations   |-> <<>>,
                     bond_length     |-> <<>>,
                     rows            |-> <<>> ]
        /\ pc' = "run_DOF_scan"
        /\ UNCHANGED <<err, calls, files, det>>
        /\ UNCHANGED protoVars

\* the chain with the unimplemented types tested before the bond
dof_type_bond_last(DOF_definition) ==
    IF "angle" \in DOF_definition \/ "torsion" \in DOF_definition
    THEN [dof_type |-> "none", raises |-> "NotImplementedError"]
    ELSE IF "bond" \in DOF_definition
    THEN [dof_type |-> "bond", raises |-> "none"]
    ELSE [dof_type |-> "none", raises |-> "ValueError"]

\* the if/elif chain over the keys: the scan type chosen, or the error raised
dof_type(DOF_definition) ==
    IF "bond" \in DOF_definition
    THEN [dof_type |-> "bond", raises |-> "none"]
    ELSE IF "angle" \in DOF_definition
    THEN [dof_type |-> "none", raises |-> "NotImplementedError"]
    ELSE IF "torsion" \in DOF_definition
    THEN [dof_type |-> "none", raises |-> "NotImplementedError"]
    ELSE [dof_type |-> "none", raises |-> "ValueError"]

\* run_DOF_scan up to the call of perform_scan: the testsystem and the system
\* are built first, then the type of scan is chosen
run_DOF_scan ==
    /\ pc = "run_DOF_scan"
    /\ calls' = calls \o << Event("generate_testsystem", 0, "ethanol", Zero),
                            Event("initialize_system", 0, NnpName, Zero) >>
    /\ LET chosen == dof_type(scan.definition)
       IN IF chosen.raises = "none"
          THEN /\ pc' = "setup_simulation"
               /\ err' = err
          ELSE /\ pc' = "raised"
               /\ err' = chosen.raises
    /\ UNCHANGED <<files, scan, det>>
    /\ UNCHANGED protoVars

\* DOFTest.setup_simulation: build the handle, position it, write the pdb
DOFTest_setup_simulation ==
    /\ pc = "setup_simulation"
    /\ calls' = calls \o
          << Event("create_simulation", 1, "vacuum", Rat(300, 1)),
             Event("setPositions", 1, "testsystem", Zero),
             Event("getState", 1, "", Zero),
             Event("open", 1, ScanFileName \o ".pdb", Zero) >>
    /\ scan' = [scan EXCEPT !.context =
                   Quantity(value_in_unit(scan.positions, "nanometer"), "nanometer")]
    /\ files' = Append(files, OutputFile(ScanFileName \o ".pdb", 1, "testsystem",
                                          "dropped"))
    /\ pc' = "perform_DOF_scan"
    /\ UNCHANGED <<err, det>>
    /\ UNCHANGED protoVars

\* assert parameters.bond: an empty list (or None) fails it
BondSpecified(bond) == Len(bond) > 0

\* the head of perform_DOF_scan when no bond is given
perform_DOF_scan_assert ==
    /\ pc = "perform_DOF_scan"
    /\ scan.k = 0
    /\ ~BondSpecified(scan.bond)
    /\ err' = "AssertionError"
    /\ pc' = "raised"
    /\ UNCHANGED <<calls, files, scan, det>>
    /\ UNCHANGED protoVars

\* one pass of the loop of perform_DOF_scan
perform_DOF_scan ==
    /\ pc = "perform_DOF_scan"
    /\ scan.k < NumSamples
    /\ BondSpecified(scan.bond)
    /\ LET length == ScanLength(scan.bond_length_max, scan.k + 1)
           new_pos == set_bond_length(scan.positions, scan.bond[1], scan.bond[2], length)
           state == Quantity(value_in_unit(new_pos, "nanometer"), "nanometer")
       IN /\ scan' = [scan EXCEPT
                         !.context = state,
                         !.k = @ + 1,
                         !.potential_energy = Append(@, getPotentialEnergy(state.value)),
                         !.conformations = Append(@, state.value),
                         !.bond_length = Append(@, length)]
          /\ calls' = calls \o << Event("setPositions", 1, "new_pos", length),
                                  Event("getState", 1, "", Zero) >>
    /\ pc' = IF scan.k + 1 = NumSamples THEN "perform_scan" ELSE "perform_DOF_scan"
    /\ UNCHANGED <<err, files, det>>
    /\ UNCHANGED protoVars

\* the rows written last sample first
ZipReversed(a, b) ==
    [j \in 1..Len(a) |-> <<a[Len(a) - j + 1], b[Len(b) - j + 1]>>]

RECURSIVE Zip(_, _)
Zip(a, b) ==
    IF Len(a) = 0 \/ Len(b) = 0 THEN <<>>
    ELSE << <<a[1], b[1]>> >> \o Zip(Tail(a), Tail(b))

\* writer.writerow([...]): the header row of the table
ScanHeader == << "bond distance [A]", "potential energy [kJ/mol]" >>

\* the tail of DOFTest.perform_scan: save the trajectory and the table, the
\* header row first and then one row per sample
perform_scan ==
    /\ pc = "perform_scan"
    /\ files' = files \o << OutputFile(ScanFileName \o ".dcd", 1, "conformations",
                                       "callee"),
                            OutputFile(ScanFileName \o ".csv", 1, "rows", "with") >>
    /\ calls' = calls \o << Event("open", 1, ScanFileName \o ".dcd", Zero),
                            Event("open", 1, ScanFileName \o ".csv", Zero) >>
    /\ scan' = [scan EXCEPT !.rows = << ScanHeader >> \o
                                      Zip(scan.bond_length, scan.potential_energy)]
    /\ pc' = "done"
    /\ UNCHANGED <<err, det>>
    /\ UNCHANGED protoVars

NextScan ==
    \/ CallScan
    \/ CallDOFScan
    \/ run_DOF_scan
    \/ DOFTest_setup_simulation
    \/ perform_DOF_scan_assert
    \/ perform_DOF_scan
    \/ perform_scan

SpecScan == Init /\ [][NextScan]_vars

-----------------------------------------------------------------------------
(* Properties of the bond scan *)

\* C4: the scan evaluates exactly 100 samples whose lengths never decrease,
\* the first being 0 and the last bond_length_max; with bond_length_max = 0
\* every sample has length 0.
C4_ScanLengths ==
    scan.active =>
      /\ Len(scan.bond_length) = scan.k
      /\ scan.k <= 100
      /\ pc \in {"perform_scan", "done"} =>
            /\ Len(scan.bond_length) = 100
            /\ scan.bond_length[100] = scan.bond_length_max
      /\ scan.k >= 1 => scan.bond_length[1] = <<0, 1>>
      /\ \A j \in 1..Len(scan.bond_length) :
            /\ j > 1 => scan.bond_length[j - 1][1] * scan.bond_length[j][2]
                            <= scan.bond_length[j][1] * scan.bond_length[j - 1][2]
            /\ scan.bond_length_max = <<0, 1>> => scan.bond_length[j] = <<0, 1>>

C4_Witness ==
    /\ scan.active
    /\ pc = "done"
    /\ scan.bond_length_max = <<2, 1>>
    /\ Len(scan.bond_length) = 100
    /\ scan.bond_length[50] = <<98, 99>>

\* the original coordinate (nm) of atom a of the scanned geometry
OriginalNm(a) ==
    LET f == IF scan.positions.unit = "nanometer" THEN <<1, 1>> ELSE <<1, 10>>
        c == scan.positions.value[a]
    IN << <<c[1][1] * f[1], c[1][2] * f[2]>>,
          <<c[2][1] * f[1], c[2][2] * f[2]>>,
          <<c[3][1] * f[1], c[3][2] * f[2]>> >>

SameVec(a, b) ==
    \A d \in 1..3 : a[d][1] * b[d][2] = b[d][1] * a[d][2]

\* C5 (as claimed): at every sample of length 0 the second bond atom sits at
\* its own original coordinate.
C5_ZeroLengthAtOwnCoordinate ==
    scan.active =>
      \A j \in 1..Len(scan.bond_length) :
        scan.bond_length[j][1] = 0 =>
            SameVec(scan.conformations[j][scan.bond[2]], OriginalNm(scan.bond[2]))

\* C5 (amended): at every sample of length 0 the second bond atom sits at the
\* original coordinate of the FIRST bond atom (the bond is collapsed), and all
\* other atoms sit at their original coordinates.
C5_ZeroLengthAtFirstAtom ==
    scan.active =>
      \A j \in 1..Len(scan.bond_length) :
        scan.bond_length[j][1] = 0 =>
            /\ SameVec(scan.conformations[j][scan.bond[2]], OriginalNm(scan.bond[1]))
            /\ \A a \in 1..3 : a # scan.bond[2] =>
                  SameVec(scan.conformations[j][a], OriginalNm(a))

C5_Witness ==
    /\ scan.active
    /\ scan.k >= 1
    /\ scan.bond = <<1, 2>>
    /\ scan.bond_length[1] = <<0, 1>>
    /\ scan.conformations[1][2] = scan.conformations[1][1]
    /\ ~SameVec(OriginalNm(2), OriginalNm(1))

Cross(u, v) ==
    << RatSub(RatMul(u[2], v[3]), RatMul(u[3], v[2])),
       RatSub(RatMul(u[3], v[1]), RatMul(u[1], v[3])),
       RatSub(RatMul(u[1], v[2]), RatMul(u[2], v[1])) >>

Dot(u, v) == RatAdd(RatMul(u[1], v[1]), RatAdd(RatMul(u[2], v[2]), RatMul(u[3], v[3])))

\* C24: no step of the scan changes parameters.testsystem.positions, and in
\* every geometry evaluated each atom other than the second bond atom (the
\* first bond atom included) sits at its input coordinate, while the second
\* bond atom sits on the ray from the input position of the first bond atom
\* through the input position of the second.
C24_SamplesFromOriginalGeometry ==
    [][ (scan.active /\ scan'.active) =>
          /\ scan'.positions = scan.positions
          /\ \A j \in 1..Len(scan'.conformations) :
                LET c == scan'.conformations[j]
                    o1 == OriginalNm(scan.bond[1])
                    o2 == OriginalNm(scan.bond[2])
                    u == VecSub(c[scan.bond[2]], o1)
                    v == VecSub(o2, o1)
                    x == Cross(u, v)
                IN /\ \A a \in 1..3 : a # scan.bond[2] => SameVec(c[a], OriginalNm(a))
                   /\ x[1][1] = 0 /\ x[2][1] = 0 /\ x[3][1] = 0
                   /\ Dot(u, v)[1] >= 0
      ]_vars

C24_Witness ==
    /\ scan.active
    /\ pc = "done"
    /\ scan.bond = <<2, 1>>
    /\ scan.bond_length_max = <<2, 1>>
    /\ Len(scan.conformations) = 100
    /\ SameVec(scan.conformations[100][2], OriginalNm(2))
    /\ SameVec(scan.conformations[100][3], OriginalNm(3))
    /\ ~SameVec(scan.conformations[100][1], OriginalNm(1))

\* C25: perform_scan never calls minimizeEnergy or step.  After the calls of
\* setup_simulation (create_simulation, setPositions, getState, and the
\* snapshot file) the calls on the handle are, for each sample in turn, one
\* setPositions at the sampled length followed by one getState; the lists of
\* lengths, energies and geometries have one entry per sample, the energy
\* being the one at that sample's geometry, and the rows of the table are
\* the header row followed by the (length, energy) pairs in the order of the
\* samples.
C25_ScanEvaluatesOnly ==
    (scan.active /\ pc \in {"perform_DOF_scan", "perform_scan", "done"}) =>
      LET b == CHOOSE j \in 1..Len(calls) : calls[j].op = "open"
      IN /\ \A j \in 1..Len(calls) :
               calls[j].op \notin {"minimizeEnergy", "step", "setTemperature"}
         /\ calls[b - 3].op = "create_simulation"
         /\ calls[b - 2].op = "setPositions"
         /\ calls[b - 1].op = "getState"
         /\ Len(scan.bond_length) = scan.k
         /\ Len(scan.potential_energy) = scan.k
         /\ Len(scan.conformations) = scan.k
         /\ \A j \in 1..scan.k :
               /\ calls[b + 2 * j - 1].op = "setPositions"
               /\ calls[b + 2 * j - 1].val = scan.bond_length[j]
               /\ calls[b + 2 * j].op = "getState"
               /\ scan.potential_energy[j] = [energy_at |-> scan.conformations[j]]
         /\ \A j \in (b + 2 * scan.k + 1)..Len(calls) : calls[j].op = "open"
         /\ pc = "done" =>
               /\ scan.k = 100
               /\ Len(scan.rows) = 101
               /\ scan.rows[1] = ScanHeader
               /\ \A j \in 1..100 :
                     scan.rows[j + 1] = <<scan.bond_length[j], scan.potential_energy[j]>>

C25_Witness ==
    /\ scan.active
    /\ pc = "done"
    /\ scan.entry = "perform_scan"
    /\ scan.bond_length_max = <<2, 1>>
    /\ Len(calls) = 206
    /\ calls[203].op = "setPositions"
    /\ calls[204].op = "getState"
    /\ scan.rows[1][1] = "bond distance [A]"
    /\ scan.rows[101][1] = <<2, 1>>
    /\ scan.rows[2][1] = <<0, 1>>

\* run_DOF_scan has chosen the scan type or raised
DOFScanDispatched ==
    scan.active /\ scan.entry = "run_DOF_scan" /\ pc # "run_DOF_scan"

\* no handle was created, nothing positioned or evaluated, no file opened
NothingScanned ==
    /\ \A j \in 1..Len(calls) :
          calls[j].op \notin {"create_simulation", "setPositions", "getState", "open"}
    /\ scan.k = 0
    /\ scan.potential_energy = <<>>
    /\ files = <<>>

\* C20 (as claimed): run_DOF_scan raises NotImplementedError for every
\* DOF_definition with an angle or a torsion key and ValueError for one with
\* none of the three keys, and a rejected call has set up no simulation,
\* evaluated no sample and written no file.
C20_RejectsAngleAndTorsion ==
    DOFScanDispatched =>
      /\ ("angle" \in scan.definition \/ "torsion" \in scan.definition) =>
            pc = "raised" /\ err = "NotImplementedError"
      /\ scan.definition \cap {"bond", "angle", "torsion"} = {} =>
            pc = "raised" /\ err = "ValueError"
      /\ pc = "raised" => NothingScanned

\* C20 (amended): run_DOF_scan rejects exactly the definitions without a bond
\* key: with NotImplementedError if there is an angle or a torsion key, with
\* ValueError if there is none of the three; a rejected call has set up no
\* simulation, evaluated no sample and written no file.  A definition with a
\* bond key raises neither error, whatever other keys it has, and is handed
\* on as a bond scan.
C20_RejectsUnlessBond ==
    DOFScanDispatched =>
      IF "bond" \in scan.definition
      THEN err \notin {"NotImplementedError", "ValueError"}
      ELSE /\ pc = "raised"
           /\ err = (IF "angle" \in scan.definition \/ "torsion" \in scan.definition
                     THEN "NotImplementedError" ELSE "ValueError")
           /\ NothingScanned

C20_Witness ==
    /\ scan.active
    /\ scan.entry = "run_DOF_scan"
    /\ scan.definition = {"torsion"}
    /\ pc = "raised"
    /\ err = "NotImplementedError"
    /\ Len(calls) = 2
    /\ files = <<>>
-----------------------------------------------------------------------------
(* IEEE-754 double arithmetic for the target count of run_detect_minimum.    *)
(* Natural numbers of any size are sequences of limbs in base 2^14, least    *)
(* significant first and without leading zero limbs.  A double is [zero, M,  *)
(* e]: a 53-bit significand M and an exponent e, with value M * 2^e.         *)
(* Results are rounded to nearest, ties to even.                             *)

LimbBits == 14
Base == 2 ^ LimbBits
MantissaBits == 53
GuardBits == 70
FZero == [zero |-> TRUE, M |-> <<>>, e |-> 0]

Front(s) == SubSeq(s, 1, Len(s) - 1)

RECURSIVE Strip(_)
Strip(X) == IF Len(X) > 0 /\ X[Len(X)] = 0 THEN Strip(Front(X)) ELSE X

RECURSIVE BigFromInt(_)
BigFromInt(n) == IF n = 0 THEN <<>> ELSE <<n % Base>> \o BigFromInt(n \div Base)

RECURSIVE BigToInt(_)
BigToInt(X) == IF Len(X) = 0 THEN 0 ELSE X[1] + Base * BigToInt(Tail(X))

\* X * n + c, for 0 <= n < Base
RECURSIVE BigMulAdd(_, _, _)
BigMulAdd(X, n, c) ==
    IF Len(X) = 0 THEN BigFromInt(c)
    ELSE LET t == X[1] * n + c
         IN <<t % Base>> \o BigMulAdd(Tail(X), n, t \div Base)

\* the limbs k.. of X, as a number, modulo d
RECURSIVE HighRem(_, _, _)
HighRem(X, d, k) ==
    IF k > Len(X) THEN 0 ELSE (HighRem(X, d, k + 1) * Base + X[k]) % d

\* quotient and remainder of X by d, for 1 <= d <= Base
BigDivSmall(X, d) ==
    [ q |-> Strip([k \in 1..Len(X) |-> (HighRem(X, d, k + 1) * Base + X[k]) \div d]),
      r |-> HighRem(X, d, 1) ]

RECURSIVE BitLenInt(_)
BitLenInt(n) == IF n = 0 THEN 0 ELSE 1 + BitLenInt(n \div 2)

BitLen(X) == IF Len(X) = 0 THEN 0 ELSE (Len(X) - 1) * LimbBits + BitLenInt(X[Len(X)])


\* X * 2^k
RECURSIVE ShiftLeft(_, _)
ShiftLeft(X, k) ==
    IF k = 0 THEN X
    ELSE LET j == Min(k, LimbBits - 1)
         IN ShiftLeft(BigMulAdd(X, 2 ^ j, 0), k - j)

\* floor(X / 2^k), and whether a non-zero bit was shifted out
RECURSIVE ShiftRight(_, _)
ShiftRight(X, k) ==
    IF k = 0 THEN [q |-> X, lost |-> FALSE]
    ELSE LET j == Min(k, LimbBits - 1)
             d == BigDivSmall(X, 2 ^ j)
             rest == ShiftRight(d.q, k - j)
         IN [q |-> rest.q, lost |-> rest.lost \/ d.r # 0]

\* the double nearest to (X + fraction) * 2^e, where `inexact` tells whether
\* the fraction in [0, 1) is non-zero; X # 0
RoundToDouble(X, inexact, e) ==
    LET L == BitLen(X)
    IN IF L <= MantissaBits
       THEN [zero |-> FALSE, M |-> ShiftLeft(X, MantissaBits - L),
             e |-> e - (MantissaBits - L)]
       ELSE LET s == L - MantissaBits
                h == ShiftRight(X, s - 1)
                half == h.q[1] % 2 = 1
                q == ShiftRight(h.q, 1).q
                odd == q[1] % 2 = 1
                up == half /\ (h.lost \/ inexact \/ odd)
                M == IF up THEN BigMulAdd(q, 1, 1) ELSE q
            IN IF BitLen(M) > MantissaBits
               THEN [zero |-> FALSE, M |-> ShiftRight(M, 1).q, e |-> e + s + 1]
               ELSE [zero |-> FALSE, M |-> M, e |-> e + s]

\* the double nearest to a / b, for integers a >= 0 and 1 <= b <= Base:
\* float(a) / float(b), also the value of the decimal literal a/b
FlFromRatio(a, b) ==
    IF a = 0 THEN FZero
    ELSE LET d == BigDivSmall(ShiftLeft(BigFromInt(a), GuardBits), b)
         IN RoundToDouble(d.q, d.r # 0, -GuardBits)

\* f / float(d) for a double f and an integer 1 <= d <= Base
FlDivInt(f, d) ==
    IF f.zero THEN FZero
    ELSE LET q == BigDivSmall(ShiftLeft(f.M, GuardBits), d)
         IN RoundToDouble(q.q, q.r # 0, f.e - GuardBits)

\* float(n) * f for an integer 0 <= n < Base
FlMulInt(n, f) ==
    IF n = 0 \/ f.zero THEN FZero
    ELSE RoundToDouble(BigMulAdd(f.M, n, 0), FALSE, f.e)

\* int(f): truncation toward zero of a non-negative double below 2^31
FlTrunc(f) ==
    IF f.zero THEN 0
    ELSE IF f.e >= 0 THEN BigToInt(ShiftLeft(f.M, f.e))
    ELSE BigToInt(ShiftRight(f.M, -f.e).q)

\* nr_of_molecules_to_test = int(nr_of_molecules * (percentage / 100)), the
\* percentage being the Python number written pn/pd
Hundred == 100
TargetCount(nr_of_molecules, pn, pd) ==
    FlTrunc(FlMulInt(nr_of_molecules, FlDivInt(FlFromRatio(pn, pd), Hundred)))
-----------------------------------------------------------------------------
(* MinimizationProtocol.perform_stability_test, as run_detect_minimum uses it *)

\* the parameters run_detect_minimum builds; fields it does not pass keep the
\* defaults of the parameter class, which has no simulated_annealing flag
MinimizationTestParameters(testsystem, folder, name) ==
    [ temperature         |-> IntTemp(300),
      ensemble            |-> "nvt",
      simulated_annealing |-> FALSE,
      env                 |-> "vacuum",
      convergence_criteria |-> "convergence_criteria",
      testsystem          |-> testsystem,
      output_folder       |-> folder,
      log_file_name       |-> name ]

\* sim.context.getState(getPositions=True, getEnergy=True) after setup: the
\* positions the context holds, and the energy at them; no step has moved
\* them, so they are the positions set, or what minimizeEnergy made of them
ContextState(p, minimize) ==
    LET positions == IF minimize THEN "minimized(" \o p.testsystem \o ")"
                     ELSE p.testsystem
    IN [positions |-> positions, energy |-> getPotentialEnergy(positions)]

\* the snapshot written from the testsystem instead of the state
MinimizationResultWritingInput(p, minimize, id, r) ==
    LET res == SetupResult(p, p.convergence_criteria, minimize, id, r)
        state == ContextState(p, minimize)
    IN [ events |-> res.events \o
                    << Event("getState", id, "", Zero),
                       Event("open", id, output_file_name(p) \o ".pdb", Zero) >>,
         handle |-> res.handle,
         file   |-> OutputFile(output_file_name(p) \o ".pdb", r, p.testsystem,
                               "dropped"),
         state  |-> state ]

\* setup, state read and the structure snapshot; the parameters carry no
\* simulated_annealing flag, so setup returns the handle
MinimizationResult(p, minimize, id, r) ==
    LET res == SetupResult(p, p.convergence_criteria, minimize, id, r)
        state == ContextState(p, minimize)
    IN [ events |-> res.events \o
                    << Event("getState", id, "", Zero),
                       Event("open", id, output_file_name(p) \o ".pdb", Zero) >>,
         handle |-> res.handle,
         \* PDBFile.writeFile(topology, state.getPositions(), open(...))
         file   |-> OutputFile(output_file_name(p) \o ".pdb", r, state.positions,
                               "dropped"),
         \* the returned State
         state  |-> state ]

-----------------------------------------------------------------------------
(* run_detect_minimum *)

Percentages == { <<0, 1>>, <<1, 10>>, <<25, 1>>, <<50, 1>>, <<100, 1>> }
Thresholds == {1, 2}

\* str(nnp): the potential is handed over by its name or as an object
Nnps == {"ani2x", "<Potential object>"}
MaxHeavyAtoms == 3

\* what loading the next entry of the listing yields
Candidates ==
    [ loads : BOOLEAN,             \* generate_molecule_from_sdf returned a molecule
      heavy_atoms : 1..MaxHeavyAtoms,
      unknown : BOOLEAN,           \* an element outside _IMPLEMENTED_ELEMENTS
      builds : BOOLEAN ]           \* generate_testsystem raises no ValueError

\* The listing pairs the two files of one molecule directory: the k-th entry
\* lies in the k-th directory.  The directory identifies the molecule; the
\* base name of the start file is whatever the data set holds there, either
\* one of its own or one that the start files of all directories share.
BaseNames(k) == {IntStr(k), "start"}
StartFile(k, base) == "drugbank/owl/" \o IntStr(k) \o "/" \o base \o ".xyz"

RECURSIVE LastComponent(_)
LastComponent(path) ==
    IF \E k \in 1..Len(path) : SubSeq(path, k, k) = "/"
    THEN LastComponent(SubSeq(path, 2, Len(path)))
    ELSE path

\* str.removesuffix
RemoveSuffix(str, suffix) ==
    IF Len(str) >= Len(suffix)
          /\ SubSeq(str, Len(str) - Len(suffix) + 1, Len(str)) = suffix
    THEN SubSeq(str, 1, Len(str) - Len(suffix))
    ELSE str

\* name = os.path.basename("".join(start_file.split("/")[-1]).removesuffix(".xyz"))
MoleculeName(start_file) == LastComponent(RemoveSuffix(LastComponent(start_file), ".xyz"))

\* score[name] = value
RECURSIVE ScorePut(_, _, _)
ScorePut(score, name, value) ==
    IF Len(score) = 0 THEN << [name |-> name, value |-> value] >>
    ELSE IF score[1].name = name
    THEN << [name |-> name, value |-> value] >> \o Tail(score)
    ELSE << score[1] >> \o ScorePut(Tail(score), name, value)

\* the geometries the listing pairs with the k-th start file: the
\* reference-minimized one and the one to start the minimization from
MinimizedPosition(k) == "minimized_position_" \o IntStr(k)
StartPosition(k) == "start_position_" \o IntStr(k)

\* minimize=False for the reference, minimize=True for the candidate
AlwaysMinimize == TRUE
ReferenceMinimize == FALSE
CandidateMinimize == TRUE

\* the reference trajectory read through the testsystem object at the end
ScoreCandidateLateReference(name, nnp, minimized_position, start_position, id, r) ==
    LET reference_testsystem == [positions |-> minimized_position]
        ref == MinimizationResult(
                   MinimizationTestParameters(reference_testsystem.positions, "out",
                       "ref_" \o name \o "_" \o nnp),
                   ReferenceMinimize, id, r)
        minimize_testsystem == [reference_testsystem EXCEPT !.positions = start_position]
        min == MinimizationResult(
                   MinimizationTestParameters(minimize_testsystem.positions, "out",
                       "minimize_" \o name \o "_" \o NnpName),
                   CandidateMinimize, id + 1, r + 1)
        testsystem == [minimize_testsystem EXCEPT !.positions = min.state.positions]
    IN [ ref |-> ref, min |-> min, testsystem |-> testsystem,
         events |-> << Event("generate_testsystem", 0, "SmallMoleculeVacuumOption", Zero),
                       Event("initialize_system", 0, nnp, Zero) >>
                    \o ref.events
                    \o << Event("initialize_system", 0, nnp, Zero) >>
                    \o min.events,
         value |-> [rmsd |-> <<testsystem.positions, testsystem.positions>>,
                    d_energy |-> <<ref.state.energy, min.state.energy>>] ]

\* the body of the loop for a candidate that passed the checks.  The
\* reference testsystem and the testsystem to minimize are one object: each
\* assignment to its positions replaces what the other name sees, and each
\* md.Trajectory keeps the positions the object had when it was built.
ScoreCandidate(name, nnp, minimized_position, start_position, id, r) ==
    LET reference_testsystem == [positions |-> minimized_position]
        ref == MinimizationResult(
                   MinimizationTestParameters(reference_testsystem.positions, "out",
                       "ref_" \o name \o "_" \o nnp),
                   ReferenceMinimize, id, r)
        reference_energy == ref.state.energy
        reference_traj == reference_testsystem.positions
        \* minimize_testsystem = reference_testsystem
        minimize_testsystem == [reference_testsystem EXCEPT !.positions = start_position]
        min == MinimizationResult(
                   MinimizationTestParameters(minimize_testsystem.positions, "out",
                       "minimize_" \o name \o "_" \o NnpName),
                   CandidateMinimize, id + 1, r + 1)
        minimized_energy == min.state.energy
        \* minimize_testsystem.positions = state.getPositions(asNumpy=True)
        testsystem == [minimize_testsystem EXCEPT !.positions = min.state.positions]
        minimized_traj == testsystem.positions
    IN [ ref |-> ref, min |-> min, testsystem |-> testsystem,
         \* the testsystem is generated and the system initialized before the
         \* reference run, the system initialized again before the second run
         events |-> << Event("generate_testsystem", 0, "SmallMoleculeVacuumOption", Zero),
                       Event("initialize_system", 0, nnp, Zero) >>
                    \o ref.events
                    \o << Event("initialize_system", 0, nnp, Zero) >>
                    \o min.events,
         value |-> [rmsd |-> <<minimized_traj, reference_traj>>,
                    d_energy |-> <<reference_energy, minimized_energy>>] ]

\* a molecule at the threshold taken for one above it
at_or_above_threshold(c, threshold) == c.heavy_atoms >= threshold

\* heavy_atoms > skip_molecules_above_heavy_atom_threshold
above_threshold(c, threshold) == c.heavy_atoms > threshold

\* counter >= nr_of_molecules_to_test, tested after a molecule is scored
QuotaReached(counter, target) == counter >= target

run_detect_minimum ==
    \E n \in 0..MaxCandidates, p \in Percentages, thr \in Thresholds, nnp \in Nnps :
        /\ pc = "idle"
        /\ det' = [ active    |-> TRUE,
                    nnp       |-> nnp,
                    total     |-> n,
                    pn        |-> p[1],
                    pd        |-> p[2],
                    threshold |-> thr,
                    target    |-> TargetCount(n, p[1], p[2]),
                    idx       |-> 0,
                    counter   |-> 0,
                    skipped   |-> 0,
                    score     |-> <<>>,
                    \* history: the passes that reached score[name] = ...
                    scored    |-> <<>>,
                    last      |-> <<>>,
                    returned  |-> FALSE ]
        /\ pc' = "detect_loop"
        /\ UNCHANGED <<err, calls, files, scan>>
        /\ UNCHANGED protoVars

\* one pass of the loop over the listing
DetectCandidate ==
    \E c \in Candidates :
        /\ pc = "detect_loop"
        /\ det.idx < det.total
        /\ \E base \in BaseNames(det.idx + 1) :
           LET k == det.idx + 1
               name == MoleculeName(StartFile(k, base))
               id == Len(sims) + 1
               scored == ScoreCandidate(name, det.nnp, MinimizedPosition(k),
                                        StartPosition(k), id, 2 * det.counter + 1)
               ref == scored.ref
               min == scored.min
           IN IF ~c.loads
              THEN \* mol is None: _above_threshold calls mol.GetAtoms()
                   /\ err' = "AttributeError"
                   /\ pc' = "raised"
                   /\ det' = [det EXCEPT !.idx = k, !.last = <<c>>]
                   /\ UNCHANGED <<sims, calls, files>>
              ELSE IF above_threshold(c, det.threshold) \/ c.unknown
              THEN /\ det' = [det EXCEPT !.idx = k, !.skipped = @ + 1,
                                          !.last = <<c>>]
                   /\ pc' = "detect_loop"
                   /\ UNCHANGED <<err, sims, calls, files>>
              ELSE IF ~c.builds
              THEN \* generate_testsystem raises ValueError: continue
                   /\ calls' = Append(calls, Event("generate_testsystem", 0,
                                                   "SmallMoleculeVacuumOption", Zero))
                   /\ det' = [det EXCEPT !.idx = k, !.skipped = @ + 1,
                                          !.last = <<c>>]
                   /\ pc' = "detect_loop"
                   /\ UNCHANGED <<err, sims, files>>
              ELSE /\ calls' = calls \o scored.events
                   /\ sims' = sims \o <<ref.handle, min.handle>>
                   /\ files' = files \o <<ref.file, min.file>>
                   /\ det' = [det EXCEPT
                                 !.idx = k,
                                 !.last = <<c>>,
                                 !.counter = @ + 1,
                                 !.score = ScorePut(@, name, scored.value),
                                 !.scored = Append(@, [k |-> k, name |-> name,
                                                       value |-> scored.value])]
                   /\ pc' = IF QuotaReached(det.counter + 1, det.target)
                            THEN "detect_return" ELSE "detect_loop"
                   /\ err' = err
        /\ UNCHANGED <<inp, params, reporters, proto, cur, i, mol, run, job, scan>>

\* the loop has ended (quota reached or listing exhausted): print and return
DetectReturn ==
    /\ \/ pc = "detect_return"
       \/ pc = "detect_loop" /\ det.idx = det.total
    /\ det' = [det EXCEPT !.returned = TRUE]
    /\ pc' = "done"
    /\ UNCHANGED <<err, calls, files, scan>>
    /\ UNCHANGED protoVars

NextDetect ==
    \/ run_detect_minimum
    \/ DetectCandidate
    \/ DetectReturn

SpecDetect == Init /\ [][NextDetect]_vars

-----------------------------------------------------------------------------
(* Properties of run_detect_minimum *)

\* C3 (as claimed): the target is floor(total_count * percentage / 100), the
\* number of scored molecules never exceeds it, and the function returns
\* before the listing is exhausted only with exactly that many scored.
C3_HaltsExactlyAtTarget ==
    det.active =>
      /\ det.target = (det.total * det.pn) \div (det.pd * 100)
      /\ det.counter <= det.target
      /\ Len(det.score) <= det.target
      /\ (pc = "done" /\ det.idx < det.total) => det.counter = det.target

\* C18 (as claimed): run_detect_minimum never aborts on a candidate whose
\* molecule cannot be loaded or whose testsystem cannot be built: no
\* exception leaves the loop, and every candidate looked at so far was either
\* scored or skipped.
C18_LoadFailureSkipped ==
    det.active =>
      /\ pc # "raised"
      /\ err = "none"
      /\ det.idx = det.counter + det.skipped

\* C30 (as claimed): run_detect_minimum terminates for every finite listing:
\* no candidate beyond the listing is visited, the function is either still in
\* its loop with a candidate or the return ahead of it, or has returned; it
\* never raises; it returns only with the quota reached or the listing
\* exhausted, and in the latter case with fewer entries than the target.
C30_DetectTerminatesNormally ==
    det.active =>
      /\ det.idx <= det.total
      /\ pc \in {"detect_loop", "detect_return", "done"}
      /\ err = "none"
      /\ pc = "detect_return" => det.counter >= det.target
      /\ pc = "done" =>
            /\ det.returned
            /\ det.counter >= det.target \/ det.idx = det.total
            /\ det.counter < det.target => Len(det.score) < det.target

\* C19: a pass of the loop over a loaded candidate that has more heavy atoms
\* than the threshold, an unknown element, or no testsystem leaves the
\* counter, the scores, the handles and the files as they were and makes no
\* engine call, neither a system initialization nor a call on a handle (the
\* only call it may make is the attempt to generate the testsystem); any other loaded candidate (one exactly at the threshold
\* included) is run through both minimization protocols, scored under its
\* name and counted once.
C19_RejectedLeavesNoTrace ==
    [][ (pc = "detect_loop" /\ det'.idx = det.idx + 1 /\ det'.last[1].loads) =>
          LET c == det'.last[1]
          IN IF c.heavy_atoms > det.threshold \/ c.unknown \/ ~c.builds
             THEN /\ det'.counter = det.counter
                  /\ det'.score = det.score
                  /\ SubSeq(calls', 1, Len(calls)) = calls
                  /\ \A j \in (Len(calls) + 1)..Len(calls') :
                        calls'[j].op = "generate_testsystem" /\ calls'[j].sim = 0
                  /\ sims' = sims
                  /\ files' = files
                  /\ pc' = "detect_loop"
             ELSE /\ det'.counter = det.counter + 1
                  /\ det'.skipped = det.skipped
                  /\ Len(sims') = Len(sims) + 2
                  /\ \E j \in 1..Len(calls') :
                        j > Len(calls) /\ calls'[j].op = "minimizeEnergy"
                  /\ det'.scored = Append(det.scored, det'.scored[Len(det'.scored)])
                  /\ LET e == det'.scored[Len(det'.scored)]
                     IN /\ e.k = det'.idx
                        /\ \E base \in BaseNames(e.k) :
                              e.name = MoleculeName(StartFile(e.k, base))
                        /\ \E j \in 1..Len(det'.score) :
                              /\ det'.score[j].name = e.name
                              /\ det'.score[j].value = e.value ]_vars

C26_ReferenceThenMinimization ==
    det.active =>
      /\ Len(det.scored) = det.counter
      /\ Len(sims) = 2 * Len(det.scored)
      /\ Len(files) = 2 * Len(det.scored)
      /\ \A j \in 1..Len(det.scored) :
            LET n == det.scored[j].name
                m == IntStr(det.scored[j].k)
                a == 2 * j - 1
                b == 2 * j
                onA == {x \in 1..Len(calls) : calls[x].sim = a}
                onB == {x \in 1..Len(calls) : calls[x].sim = b}
            IN /\ \A x \in onA, y \in onB : x < y
               /\ CallsOn(a, "minimizeEnergy") = {}
               /\ Cardinality(CallsOn(b, "minimizeEnergy")) = 1
               /\ Cardinality(CallsOn(a, "setPositions")) = 1
               /\ Cardinality(CallsOn(b, "setPositions")) = 1
               /\ \A x \in CallsOn(a, "setPositions") :
                     calls[x].what = "minimized_position_" \o m
               /\ \A x \in CallsOn(b, "setPositions") :
                     /\ calls[x].what = "start_position_" \o m
                     /\ \A y \in CallsOn(b, "minimizeEnergy") : x < y
               /\ Cardinality(CallsOn(a, "open")) = 1
               /\ Cardinality(CallsOn(b, "open")) = 1
               /\ files[a].name = "out/ref_" \o n \o "_" \o det.nnp \o ".pdb"
               /\ files[b].name = "out/minimize_" \o n \o "_ani2x.pdb"
               /\ files[a].content = "minimized_position_" \o m
               /\ files[b].content = "minimized(start_position_" \o m \o ")"
               /\ \E x \in 1..Len(det.score) : det.score[x].name = n

C26_Witness ==
    /\ det.active
    /\ det.counter = 2
    /\ Len(sims) = 4
    /\ sims[1].minimized = 0
    /\ sims[2].minimized = 1
    /\ sims[3].minimized = 0
    /\ sims[4].minimized = 1
    /\ det.score[2].name = "2"

\* C27: for every scored molecule the pair entering the RMSD is the geometry
\* the minimizing run returned and the reference-minimized geometry of the
\* dataset (neither the start geometry nor the minimized one a second time),
\* and the pair entering the energy error is the energy at the
\* reference-minimized geometry, where the first handle was positioned, and
\* the energy at the geometry the minimizing run returned.
C27_DeviationAgainstReference ==
    det.active =>
      /\ \A j \in 1..Len(det.scored) :
            LET m == IntStr(det.scored[j].k)
                v == det.scored[j].value
                reference == "minimized_position_" \o m
                minimized == "minimized(start_position_" \o m \o ")"
            IN /\ v.rmsd = <<minimized, reference>>
               /\ v.rmsd[2] # "start_position_" \o m
               /\ v.rmsd[2] # v.rmsd[1]
               /\ v.d_energy = <<[energy_at |-> reference], [energy_at |-> minimized]>>
               /\ \A x \in CallsOn(2 * j - 1, "setPositions") : calls[x].what = reference
      \* what the mapping holds under a name is the pair of the molecule scored
      \* last under that name
      /\ \A x \in 1..Len(det.score) :
            \E j \in 1..Len(det.scored) :
                /\ det.scored[j].name = det.score[x].name
                /\ det.scored[j].value = det.score[x].value
                /\ \A l \in (j + 1)..Len(det.scored) :
                      det.scored[l].name # det.score[x].name

C27_Witness ==
    /\ det.active
    /\ pc = "done"
    /\ det.returned
    /\ Len(det.score) = 1
    /\ det.score[1].name = "2"
    /\ det.score[1].value.rmsd = <<"minimized(start_position_2)", "minimized_position_2">>
    /\ det.score[1].value.d_energy[1] = [energy_at |-> "minimized_position_2"]

C19_Witness ==
    /\ det.active
    /\ det.counter = 1
    /\ det.skipped = 2
    /\ det.idx = 3
    /\ det.last = << [loads |-> TRUE, heavy_atoms |-> det.threshold,
                      unknown |-> FALSE, builds |-> TRUE] >>
    /\ Len(det.score) = 1
    /\ Len(sims) = 2

-----------------------------------------------------------------------------
(* A caller builds MinimizationTestParameters itself and invokes             *)
(* MinimizationProtocol.perform_stability_test, possibly several times and   *)
(* possibly with an object it has used before                                *)

MaxCalls == 3

CallMinimization ==
    \E k \in 0..Len(params), testsystem \in MoleculeNames, minimize \in BOOLEAN :
        /\ pc \in {"idle", "minimization_returned"}
        /\ run < MaxCalls
        /\ k > 0 => testsystem = params[k].testsystem
        /\ params' = IF k = 0
                      THEN Append(params, MinimizationTestParameters(testsystem,
                                              "out", "min_" \o testsystem))
                      ELSE params
        /\ cur' = IF k = 0 THEN Len(params) + 1 ELSE k
        /\ job' = [parms |-> IF k = 0 THEN Len(params) + 1 ELSE k,
                   minimize |-> minimize, sim |-> 0]
        /\ inp' = [NoInput EXCEPT !.entry = "Minimization"]
        /\ proto' = "Minimization"
        /\ pc' = "minimization"
        /\ UNCHANGED <<err, reporters, sims, calls, files, i, mol, run, scan, det>>

MinimizationProtocol_perform_stability_test ==
    /\ pc = "minimization"
    /\ LET id == Len(sims) + 1
           res == MinimizationResult(params[job.parms], job.minimize, id, run + 1)
       IN /\ calls' = calls \o res.events
          /\ sims' = Append(sims, res.handle)
          /\ files' = Append(files, res.file)
          /\ job' = [parms |-> job.parms, minimize |-> job.minimize, sim |-> id,
                     state |-> res.state]
    /\ run' = run + 1
    /\ pc' = "minimization_returned"
    /\ UNCHANGED <<err, inp, params, reporters, proto, cur, i, mol, scan, det>>

NextMinimize ==
    \/ CallMinimization
    \/ MinimizationProtocol_perform_stability_test

SpecMinimize == Init /\ [][NextMinimize]_vars

-----------------------------------------------------------------------------
(* run_alanine_dipeptide_test *)

Envs == {"vacuum", "solution", "gas", "Vacuum"}

CallAlanine ==
    \E env \in Envs, t \in Temperatures, ens \in EnsembleTags, ann \in BOOLEAN,
       len \in 1..MaxSteps, st \in BOOLEAN :
        /\ pc = "idle"
        /\ inp' = [entry |-> "run_alanine_dipeptide_test", temperature |-> t,
                   ensemble |-> ens, annealing |-> ann, protocol_length |-> len,
                   names |-> <<>>, env |-> env]
        /\ reporters' = <<NewReporter(st)>>
        /\ pc' = "run_alanine_dipeptide_test"
        /\ UNCHANGED <<err, params, sims, calls, files, proto, cur, i, mol, run,
                       job, scan, det>>

\* any other environment taken for a solvated system
AlanineOptionSolvatedByDefault(env) ==
    IF env = "vacuum" THEN "SmallMoleculeVacuumOption" ELSE "SolvatedSystemOption"

\* the if/elif/else over env: the testsystem option built, or the error raised
AlanineOption(env) ==
    IF env = "vacuum" THEN "SmallMoleculeVacuumOption"
    ELSE IF env = "solution" THEN "SolvatedSystemOption"
    ELSE "RuntimeError"

AlanineLogFileName(env, ens, t) ==
    "alanine_dipeptide_" \o (IF env = "vacuum" THEN "vacuum" ELSE env \o "_" \o ens)
        \o "_" \o NnpName \o "_" \o PyStr(t) \o "K"

run_alanine_dipeptide_test ==
    /\ pc = "run_alanine_dipeptide_test"
    /\ LET opt == AlanineOption(inp.env)
       IN IF opt = "RuntimeError"
          THEN /\ err' = "RuntimeError"
               /\ pc' = "raised"
               /\ UNCHANGED <<params, calls, proto, cur>>
          ELSE /\ calls' = calls \o
                     << Event("generate_testsystem", 0, opt, Zero),
                        Event("initialize_system", 0, NnpName, Zero) >>
               /\ params' = Append(params,
                     StabilityTestParameters(inp.protocol_length, inp.temperature,
                         inp.ensemble, inp.annealing, inp.env, "ala_dipeptide", "out",
                         AlanineLogFileName(inp.env, inp.ensemble, inp.temperature), 1))
               /\ cur' = Len(params) + 1
               /\ proto' = "Propagation"
               /\ pc' = "perform_stability_test"
               /\ err' = err
    /\ UNCHANGED <<inp, reporters, sims, files, i, mol, run, job, scan, det>>

NextAlanine ==
    \/ CallAlanine
    \/ run_alanine_dipeptide_test
    \/ PropagationProtocol_perform_stability_test
    \/ _setup_simulation
    \/ _run_simulation
    \/ Return

SpecAlanine == Init /\ [][NextAlanine]_vars

\* C28: run_alanine_dipeptide_test called with an env other than 'vacuum' and
\* 'solution' raises RuntimeError with nothing done: no testsystem generated,
\* no system initialized, no parameters built, no handle created, no file
\* opened.
C28_InvalidEnvRaisesFirst ==
    (inp.entry = "run_alanine_dipeptide_test"
        /\ inp.env \notin {"vacuum", "solution"}
        /\ pc # "run_alanine_dipeptide_test")
    => /\ pc = "raised"
       /\ err = "RuntimeError"
       /\ calls = <<>>
       /\ params = <<>>
       /\ sims = <<>>
       /\ files = <<>>

C28_Witness ==
    /\ inp.entry = "run_alanine_dipeptide_test"
    /\ inp.env = "Vacuum"
    /\ inp.temperature = IntTemp(300)
    /\ pc = "raised"
    /\ err = "RuntimeError"
    /\ calls = <<>>

-----------------------------------------------------------------------------
(* Properties of MinimizationProtocol *)

\* C11: an invocation of MinimizationProtocol.perform_stability_test with
\* parameters that carry no annealing flag takes no integration step, calls
\* minimizeEnergy once if minimize is true and never if it is false, opens
\* exactly one snapshot file, after the setup calls, and returns the state
\* whose positions are the ones written to that snapshot; with minimize false
\* these are the input positions.
C11_MinimizationEvaluatesOnly ==
    (proto = "Minimization" /\ pc = "minimization_returned") =>
      LET id == job.sim
          p == params[job.parms]
          mine == {j \in 1..Len(calls) : calls[j].sim = id}
          opens == {j \in mine : calls[j].op = "open"}
          snapshots == {k \in 1..Len(files) : files[k].run = run}
      IN /\ ~p.simulated_annealing
         /\ \A j \in mine : calls[j].op # "step"
         /\ sims[id].steps = 0
         /\ Cardinality({j \in mine : calls[j].op = "minimizeEnergy"})
                = (IF job.minimize THEN 1 ELSE 0)
         /\ Cardinality(opens) = 1
         /\ Cardinality(snapshots) = 1
         /\ \A j \in opens :
               /\ calls[j].what = p.output_folder \o "/" \o p.log_file_name \o ".pdb"
               /\ \A k \in mine :
                     calls[k].op \in {"create_simulation", "setPositions",
                                      "minimizeEnergy"} => k < j
         /\ \A k \in snapshots :
               /\ files[k].name = p.output_folder \o "/" \o p.log_file_name \o ".pdb"
               /\ files[k].content = job.state.positions
         /\ job.state.energy = [energy_at |-> job.state.positions]
         /\ ~job.minimize => job.state.positions = p.testsystem

C11_Witness ==
    /\ proto = "Minimization"
    /\ pc = "minimization_returned"
    /\ run = 2
    /\ job.minimize
    /\ job.state.positions = "minimized(ethane)"
    /\ files[2].content = "minimized(ethane)"
    /\ sims[1].minimized = 0
====
